---------------------------- MODULE Spec2Model ----------------------------
(***************************************************************************)
(* A model of timelib (Galfurian/timelib): timespec_t, Duration, Stopwatch *)
(* and Timer.                                                              *)
(*                                                                         *)
(* timespec_t arithmetic goes through `double' (operator+ and operator-    *)
(* compute lhs.count() +/- rhs.count() and rebuild a timespec_t from the   *)
(* result), so the model carries an exact model of the IEEE-754 binary64   *)
(* operations the code performs: conversion from an integer, division and  *)
(* multiplication by 1e9, addition, subtraction, comparison and the        *)
(* truncating conversion back to an integer.  A double is held as a sign   *)
(* and a magnitude; the magnitude is an unbounded natural number counting  *)
(* units of 2^-(LimbBits * FracLimbs), written as a little-endian sequence *)
(* of limbs in base 2^LimbBits because TLC's integers are 32 bits wide.    *)
(* Every operation computes the exact result and rounds it once to 53      *)
(* significant bits, ties to even, as the hardware does.                   *)
(***************************************************************************)
EXTENDS Integers, Sequences, FiniteSets, TLC

(***************************************************************************)
(* Natural numbers of any size: little-endian limb sequences, no leading   *)
(* zero limb, the empty sequence is zero.                                  *)
(***************************************************************************)
LimbBits == 5 * 3

LimbBase == 2 ^ LimbBits

Max2(a, b) == IF a >= b THEN a ELSE b

Limb(m, i) == IF i <= Len(m) THEN m[i] ELSE 0

TopIdx(m) ==
    IF \A i \in 1..Len(m) : m[i] = 0 THEN 0
    ELSE CHOOSE i \in 1..Len(m) : m[i] # 0 /\ \A j \in (i + 1)..Len(m) : m[j] = 0

Strip(m) == SubSeq(m, 1, TopIdx(m))

Zeros(k) == [i \in 1..k |-> 0]

RECURSIVE BFromInt(_)
BFromInt(n) == IF n = 0 THEN <<>> ELSE <<n % LimbBase>> \o BFromInt(n \div LimbBase)

RECURSIVE BToIntFrom(_, _)
BToIntFrom(m, i) == IF i > Len(m) THEN 0 ELSE m[i] + LimbBase * BToIntFrom(m, i + 1)

BToInt(m) == BToIntFrom(m, 1)

RECURSIVE AddFrom(_, _, _, _)
AddFrom(a, b, i, c) ==
    IF i > Max2(Len(a), Len(b))
    THEN (IF c = 0 THEN <<>> ELSE <<c>>)
    ELSE LET s == Limb(a, i) + Limb(b, i) + c
         IN  <<s % LimbBase>> \o AddFrom(a, b, i + 1, s \div LimbBase)

BAdd(a, b) == AddFrom(a, b, 1, 0)

RECURSIVE SubFrom(_, _, _, _)
SubFrom(a, b, i, c) ==
    IF i > Len(a) THEN <<>>
    ELSE LET s == a[i] - Limb(b, i) - c
         IN  IF s < 0 THEN <<s + LimbBase>> \o SubFrom(a, b, i + 1, 1)
                      ELSE <<s>> \o SubFrom(a, b, i + 1, 0)

\* a - b for a >= b
BSub(a, b) == Strip(SubFrom(a, b, 1, 0))

\* -1, 0, 1 as a < b, a = b, a > b
BCmp(a, b) ==
    IF Len(a) # Len(b) THEN (IF Len(a) < Len(b) THEN -1 ELSE 1)
    ELSE IF a = b THEN 0
    ELSE LET i == CHOOSE k \in 1..Len(a) :
                      a[k] # b[k] /\ \A j \in (k + 1)..Len(a) : a[j] = b[j]
         IN  IF a[i] < b[i] THEN -1 ELSE 1

RECURSIVE MulFrom(_, _, _, _)
MulFrom(a, c, i, carry) ==
    IF i > Len(a)
    THEN (IF carry = 0 THEN <<>> ELSE <<carry>>)
    ELSE LET s == a[i] * c + carry
         IN  <<s % LimbBase>> \o MulFrom(a, c, i + 1, s \div LimbBase)

\* a * c for 0 < c <= LimbBase
BMulSmall(a, c) == MulFrom(a, c, 1, 0)

RECURSIVE DivFrom(_, _, _, _)
DivFrom(a, c, i, r) ==
    IF i = 0 THEN [q |-> <<>>, r |-> r]
    ELSE LET cur  == r * LimbBase + a[i]
             rest == DivFrom(a, c, i - 1, cur % c)
         IN  [q |-> Append(rest.q, cur \div c), r |-> rest.r]

\* [q |-> a \div c, r |-> a % c] for 0 < c <= LimbBase
BDivSmall(a, c) ==
    LET d == DivFrom(a, c, Len(a), 0)
    IN  [q |-> Strip(d.q), r |-> d.r]

\* the number of bits of a limb
LimbLen(x) == IF x = 0 THEN 0 ELSE CHOOSE k \in 1..LimbBits : 2 ^ (k - 1) <= x /\ x < 2 ^ k

BitLen(m) == IF m = <<>> THEN 0 ELSE LimbBits * (Len(m) - 1) + LimbLen(m[Len(m)])

\* m * 2^s
BShl(m, s) ==
    IF m = <<>> THEN <<>>
    ELSE Zeros(s \div LimbBits) \o BMulSmall(m, 2 ^ (s % LimbBits))

(***************************************************************************)
(* IEEE-754 binary64 values in the range the program uses.                 *)
(***************************************************************************)
\* the significand of a double holds 53 bits
DBL_MANT_DIG == 53

\* the fixed-point resolution of a magnitude is 2^-(LimbBits * FracLimbs)
FracLimbs == 6

\* round a magnitude to DBL_MANT_DIG significant bits, to nearest, ties to
\* even; sticky says that the exact value lies strictly above the magnitude
Round53(mag, sticky) ==
    LET L == BitLen(mag)
    IN  IF L <= DBL_MANT_DIG THEN mag
        ELSE LET s    == L - DBL_MANT_DIG
                 d    == (s - 1) \div LimbBits
                 k    == (s - 1) % LimbBits
                 low  == \E i \in 1..d : mag[i] # 0
                 dv   == BDivSmall(SubSeq(mag, d + 1, Len(mag)), 2 ^ k)
                 rest == sticky \/ low \/ dv.r # 0
                 half == dv.q[1] % 2 = 1
                 q    == BDivSmall(dv.q, 2).q
                 odd  == q[1] % 2 = 1
                 qr   == IF half /\ (rest \/ odd) THEN BAdd(q, <<1>>) ELSE q
             IN  BShl(qr, s)

DZero == [neg |-> FALSE, mag |-> <<>>]

MkDouble(neg, mag) == IF mag = <<>> THEN DZero ELSE [neg |-> neg, mag |-> mag]

\* static_cast<double>(n) of an integer n (exact below 2^53)
DoubleOfInt(n) ==
    IF n = 0 THEN DZero
    ELSE [neg |-> n < 0, mag |-> Zeros(FracLimbs) \o BFromInt(IF n < 0 THEN -n ELSE n)]

\* x / 1e9
DDiv1e9(x) ==
    LET d1 == BDivSmall(x.mag, 1000)
        d2 == BDivSmall(d1.q, 1000)
        d3 == BDivSmall(d2.q, 1000)
    IN  MkDouble(x.neg, Round53(d3.q, d1.r # 0 \/ d2.r # 0 \/ d3.r # 0))

\* x * 1e9
DMul1e9(x) ==
    MkDouble(x.neg, Round53(BMulSmall(BMulSmall(BMulSmall(x.mag, 1000), 1000), 1000), FALSE))

DNeg(x) == MkDouble(~x.neg, x.mag)

\* x + y
DAdd(x, y) ==
    IF x.neg = y.neg THEN MkDouble(x.neg, Round53(BAdd(x.mag, y.mag), FALSE))
    ELSE LET c == BCmp(x.mag, y.mag)
         IN  IF c = 0 THEN DZero
             ELSE IF c > 0 THEN MkDouble(x.neg, Round53(BSub(x.mag, y.mag), FALSE))
             ELSE MkDouble(y.neg, Round53(BSub(y.mag, x.mag), FALSE))

\* x - y
DSub(x, y) == DAdd(x, DNeg(y))

\* x < y
DLess(x, y) ==
    IF x.neg # y.neg THEN x.neg
    ELSE IF x.neg THEN BCmp(x.mag, y.mag) > 0
    ELSE BCmp(x.mag, y.mag) < 0

\* x > y
DGreater(x, y) == DLess(y, x)

\* static_cast<time_t>(x), static_cast<long>(x): truncation toward zero
DTruncToInt(x) ==
    LET n == BToInt(SubSeq(x.mag, FracLimbs + 1, Len(x.mag)))
    IN  IF x.neg THEN -n ELSE n

\* x / y for a divisor y that is a whole number from 1 to LimbBase
DDiv(x, y) ==
    LET d == BDivSmall(x.mag, DTruncToInt(y))
    IN  MkDouble(x.neg, Round53(d.q, d.r # 0))

\* x * y for a factor y that is a whole number from 1 to LimbBase
DMul(x, y) ==
    MkDouble(x.neg, Round53(BMulSmall(x.mag, DTruncToInt(y)), FALSE))

(***************************************************************************)
(* timespec_t: a record [tv_sec, tv_nsec].                                 *)
(***************************************************************************)
ns_per_second == 1000000000

Timespec(sec, nsec) == [tv_sec |-> sec, tv_nsec |-> nsec]

\* timespec_t::zero()
TsZero == Timespec(0, 0)

RECURSIVE NormalizeDown(_)
NormalizeDown(ts) ==
    IF ts.tv_nsec >= ns_per_second
    THEN NormalizeDown(Timespec(ts.tv_sec + 1, ts.tv_nsec - ns_per_second))
    ELSE ts

RECURSIVE NormalizeUp(_)
NormalizeUp(ts) ==
    IF ts.tv_nsec <= -ns_per_second
    THEN NormalizeUp(Timespec(ts.tv_sec - 1, ts.tv_nsec + ns_per_second))
    ELSE ts

\* a normalize() without the borrow of a negative rest
NormalizeNoBorrow(ts) == NormalizeUp(NormalizeDown(ts))

\* a normalize() whose borrow leaves the seconds as they are
NormalizeBorrowingNothing(ts) ==
    LET t == NormalizeUp(NormalizeDown(ts))
    IN  IF t.tv_nsec < 0
        THEN Timespec(t.tv_sec, ns_per_second + t.tv_nsec)
        ELSE t

\* timespec_t::normalize(): the two loops, then the borrow of a negative rest
Normalize(ts) ==
    LET t == NormalizeUp(NormalizeDown(ts))
    IN  IF t.tv_nsec < 0
        THEN Timespec(t.tv_sec - 1, ns_per_second + t.tv_nsec)
        ELSE t

\* timespec_t::count(): seconds as a double
Count(ts) == DAdd(DoubleOfInt(ts.tv_sec), DDiv1e9(DoubleOfInt(ts.tv_nsec)))

\* timespec_t(T value) for a floating-point value in seconds
TimespecOfDouble(v) ==
    LET sec  == DTruncToInt(v)
        nsec == DTruncToInt(DMul1e9(DSub(v, DoubleOfInt(sec))))
    IN  Normalize(Timespec(sec, nsec))

\* operator+(const timespec_t &, const timespec_t &)
TsAdd(lhs, rhs) == TimespecOfDouble(DAdd(Count(lhs), Count(rhs)))

\* operator-(const timespec_t &, const timespec_t &)
TsSub(lhs, rhs) == TimespecOfDouble(DSub(Count(lhs), Count(rhs)))

\* operator/(const timespec_t &, const timespec_t &)
TsDiv(lhs, rhs) == TimespecOfDouble(DDiv(Count(lhs), Count(rhs)))

\* operator/(const timespec_t &lhs, const T &rhs) with a whole number rhs
TsDivScalar(lhs, rhs) == TsDiv(lhs, TimespecOfDouble(DoubleOfInt(rhs)))

\* operator*(const timespec_t &, const timespec_t &)
TsMul(lhs, rhs) == TimespecOfDouble(DMul(Count(lhs), Count(rhs)))

\* operator*(const timespec_t &lhs, const T &rhs) with a whole number rhs
TsMulScalar(lhs, rhs) == TsMul(lhs, TimespecOfDouble(DoubleOfInt(rhs)))

\* operator<(const timespec_t &, const timespec_t &)
TsLess(lhs, rhs) ==
    \/ lhs.tv_sec < rhs.tv_sec
    \/ lhs.tv_sec = rhs.tv_sec /\ lhs.tv_nsec < rhs.tv_nsec


(***************************************************************************)
(* Exact nanosecond arithmetic on normalized timespec_t values.  The       *)
(* program has no such operations; the properties use them to say what a   *)
(* sum or a difference of two time values is.                              *)
(***************************************************************************)
ExactAdd(a, b) ==
    LET n == a.tv_nsec + b.tv_nsec
    IN  IF n >= ns_per_second
        THEN Timespec(a.tv_sec + b.tv_sec + 1, n - ns_per_second)
        ELSE Timespec(a.tv_sec + b.tv_sec, n)

\* a - b for a >= b
ExactSub(a, b) ==
    LET n == a.tv_nsec - b.tv_nsec
    IN  IF n < 0
        THEN Timespec(a.tv_sec - b.tv_sec - 1, n + ns_per_second)
        ELSE Timespec(a.tv_sec - b.tv_sec, n)

RECURSIVE ExactSum(_)
ExactSum(ds) ==
    IF ds = <<>> THEN TsZero
    ELSE ExactAdd(ds[1].duration, ExactSum(Tail(ds)))

(***************************************************************************)
(* Duration: a record [duration, print_mode, format].                      *)
(***************************************************************************)
PrintModes == {"human", "numeric", "total", "custom"}

\* Duration(timespec_t duration, print_mode_t print_mode, std::string format)
MkDuration(d, mode, fmt) == [duration |-> d, print_mode |-> mode, format |-> fmt]

\* Duration::set_print_mode
DurationSetPrintMode(d, mode) == [d EXCEPT !.print_mode = mode]

\* Duration::set_format
DurationSetFormat(d, fmt) == [d EXCEPT !.format = fmt]

\* Duration::operator+=(const T &rhs) with a timespec_t
DurationPlusAssign(d, rhs) == [d EXCEPT !.duration = TsAdd(d.duration, rhs)]

\* Duration::operator/(const T &rhs) with a whole number rhs
DurationDivScalar(d, rhs) ==
    MkDuration(TsDivScalar(d.duration, rhs), d.print_mode, d.format)

\* an assignment that also puts the settings back to the defaults
DurationAssignFresh(d, rhs) == MkDuration(rhs, "human", "")

\* Duration::operator=(const timespec_t &rhs)
DurationAssign(d, rhs) == [d EXCEPT !.duration = rhs]

\* Duration::operator+(const Duration &rhs)
DurationPlus(d, rhs) ==
    MkDuration(TsAdd(d.duration, rhs.duration), d.print_mode, d.format)

\* Duration::operator-(const Duration &rhs)
DurationMinus(d, rhs) ==
    MkDuration(TsSub(d.duration, rhs.duration), d.print_mode, d.format)

\* a product that comes with the settings of a new Duration
DurationTimesScalarPlain(d, rhs) ==
    MkDuration(TsMulScalar(d.duration, rhs), "human", <<>>)

\* Duration::operator*(const T &rhs) with a whole number rhs
DurationTimesScalar(d, rhs) ==
    MkDuration(TsMulScalar(d.duration, rhs), d.print_mode, d.format)

\* Duration::operator-=(const Duration &rhs)
DurationMinusAssign(d, rhs) ==
    [d EXCEPT !.duration = TsSub(d.duration, rhs.duration)]

\* Duration::operator/=(const T &rhs) with a whole number rhs
DurationDivAssign(d, rhs) == [d EXCEPT !.duration = TsDivScalar(d.duration, rhs)]

(***************************************************************************)
(* time_t values beyond 32 bits (nanosecond totals): a sign and a          *)
(* magnitude, and the breakdown of a nanosecond total into components.     *)
(***************************************************************************)
\* a * b
RECURSIVE BMul(_, _)
BMul(a, b) ==
    IF a = <<>> \/ b = <<>> THEN <<>>
    ELSE LET rest == BMul(a, Tail(b))
             high == IF rest = <<>> THEN <<>> ELSE <<0>> \o rest
         IN  IF b[1] = 0 THEN high ELSE BAdd(BMulSmall(a, b[1]), high)

\* one step of the long division by b: bit k of the quotient, and what is
\* left of the dividend
DivStep(st, b, k) ==
    IF BCmp(st.r, BShl(b, k)) >= 0
    THEN [q |-> BAdd(st.q, BShl(<<1>>, k)), r |-> BSub(st.r, BShl(b, k))]
    ELSE st

\* long division, one bit of the quotient at a time, from bit k down; it
\* ends early when what is left is below the divisor
RECURSIVE BDivModFrom(_, _, _)
BDivModFrom(st, b, k) ==
    IF k < 0 \/ BCmp(st.r, b) < 0 THEN st
    ELSE BDivModFrom(DivStep(st, b, k), b, k - 1)

\* [q |-> a \div b, r |-> a % b] for b > 0
BDivMod(a, b) ==
    BDivModFrom([q |-> <<>>, r |-> a], b, Max2(BitLen(a) - BitLen(b), 0))

MkTimeT(neg, mag) == [neg |-> neg /\ mag # <<>>, mag |-> mag]

\* the time_t (or long) value n
TimeT(n) == MkTimeT(n < 0, BFromInt(IF n < 0 THEN -n ELSE n))

\* x + y
TimeTAdd(x, y) ==
    IF x.neg = y.neg THEN MkTimeT(x.neg, BAdd(x.mag, y.mag))
    ELSE LET c == BCmp(x.mag, y.mag)
         IN  IF c = 0 THEN TimeT(0)
             ELSE IF c > 0 THEN MkTimeT(x.neg, BSub(x.mag, y.mag))
             ELSE MkTimeT(y.neg, BSub(y.mag, x.mag))

\* x * y
TimeTMul(x, y) == MkTimeT(x.neg # y.neg, BMul(x.mag, y.mag))

\* a division whose remainder is the value it was given
TimeTDivModKeepingValue(value, unit) ==
    LET d == BDivMod(value.mag, unit.mag)
    IN  [result    |-> MkTimeT(value.neg # unit.neg, d.q),
         remainder |-> value]

\* value / unit and value % unit of C++: the quotient is truncated toward
\* zero and the remainder has the sign of value
TimeTDivMod(value, unit) ==
    LET d == BDivMod(value.mag, unit.mag)
    IN  [result    |-> MkTimeT(value.neg # unit.neg, d.q),
         remainder |-> MkTimeT(value.neg, d.r)]

ns_per_microsecond == 1000

ns_per_millisecond == 1000000

ns_per_minute == TimeTMul(TimeT(60), TimeT(ns_per_second))

ns_per_hour == TimeTMul(TimeT(3600), TimeT(ns_per_second))

\* detail::ns_to_hours(value, &remainder), and the like
ns_to_hours(value) == TimeTDivMod(value, ns_per_hour)

ns_to_minutes(value) == TimeTDivMod(value, ns_per_minute)

ns_to_seconds(value) == TimeTDivMod(value, TimeT(ns_per_second))

ns_to_milliseconds(value) == TimeTDivMod(value, TimeT(ns_per_millisecond))

ns_to_microseconds(value) == TimeTDivMod(value, TimeT(ns_per_microsecond))

\* timespec_t::to_nanoseconds<time_t>()
ToNanoseconds(ts) ==
    TimeTAdd(TimeTMul(TimeT(ts.tv_sec), TimeT(ns_per_second)), TimeT(ts.tv_nsec))

\* components whose minutes are taken from the total, not from what the
\* hours leave
ComponentsOfTotal(ts) ==
    LET h  == ns_to_hours(ToNanoseconds(ts))
        m  == ns_to_minutes(ToNanoseconds(ts))
        sc == ns_to_seconds(m.remainder)
        ms == ns_to_milliseconds(sc.remainder)
        us == ns_to_microseconds(ms.remainder)
    IN  [h |-> h.result, m |-> m.result, s |-> sc.result, ms |-> ms.result,
         us |-> us.result, ns |-> us.remainder]

\* h, m, s, ms, us and ns as Duration::to_string() extracts them
Components(ts) ==
    LET h  == ns_to_hours(ToNanoseconds(ts))
        m  == ns_to_minutes(h.remainder)
        sc == ns_to_seconds(m.remainder)
        ms == ns_to_milliseconds(sc.remainder)
        us == ns_to_microseconds(ms.remainder)
    IN  [h |-> h.result, m |-> m.result, s |-> sc.result, ms |-> ms.result,
         us |-> us.result, ns |-> us.remainder]

(***************************************************************************)
(* Text: a sequence of characters.                                         *)
(***************************************************************************)
DigitChars == <<"0", "1", "2", "3", "4", "5", "6", "7", "8", "9">>

RECURSIVE Digits(_)
Digits(mag) ==
    IF mag = <<>> THEN <<>>
    ELSE LET d == BDivSmall(mag, 10)
         IN  Digits(d.q) \o <<DigitChars[d.r + 1]>>

\* std::to_string(x), and ss << x with no width set
Decimal(x) ==
    IF x.mag = <<>> THEN <<"0">>
    ELSE (IF x.neg THEN <<"-">> ELSE <<>>) \o Digits(x.mag)

\* a stream that ignores the width
SetWNoFill(w, x) == Decimal(x)

\* ss << std::setw(w) << x: filled with spaces on the left up to the width
SetW(w, x) ==
    LET t == Decimal(x)
    IN  [i \in 1..(w - Len(t)) |-> " "] \o t

\* s.find(substring, from): the first position at or after from where
\* substring begins, 0 when there is none (positions count from 1)
Find(str, substring, from) ==
    LET hits == {q \in from..(Len(str) - Len(substring) + 1) :
                    SubSeq(str, q, q + Len(substring) - 1) = substring}
    IN  IF hits = {} THEN 0 ELSE CHOOSE q \in hits : \A r \in hits : q <= r

\* the loop of Duration::replace with occurences = -1, searching from from
RECURSIVE ReplaceFrom(_, _, _, _)
ReplaceFrom(str, substring, substitute, from) ==
    LET pos == Find(str, substring, from)
    IN  IF pos = 0 THEN str
        ELSE ReplaceFrom(SubSeq(str, 1, pos - 1) \o substitute
                             \o SubSeq(str, pos + Len(substring), Len(str)),
                         substring, substitute, pos + Len(substitute))

\* a replace that stops after the first occurrence
ReplaceFirstOnly(str, substring, substitute) ==
    LET pos == Find(str, substring, 1)
    IN  IF pos = 0 THEN str
        ELSE SubSeq(str, 1, pos - 1) \o substitute
             \o SubSeq(str, pos + Len(substring), Len(str))

\* Duration::replace(s, substring, substitute)
Replace(str, substring, substitute) == ReplaceFrom(str, substring, substitute, 1)

\* a human branch that prints the six components whatever they are
HumanTextWithZeros(c) ==
    SetW(3, c.h) \o <<"H", " ">> \o SetW(3, c.m) \o <<"M", " ">>
    \o SetW(3, c.s) \o <<"s", " ">> \o SetW(3, c.ms) \o <<"m", " ">>
    \o SetW(3, c.us) \o <<"u", " ">> \o SetW(3, c.ns) \o <<"n", " ">>

\* a human branch that prints the components above zero only
HumanTextPositiveOnly(c) ==
    (IF c.h.mag # <<>> /\ ~c.h.neg THEN SetW(3, c.h) \o <<"H", " ">> ELSE <<>>)
    \o (IF c.m.mag # <<>> /\ ~c.m.neg THEN SetW(3, c.m) \o <<"M", " ">> ELSE <<>>)
    \o (IF c.s.mag # <<>> /\ ~c.s.neg THEN SetW(3, c.s) \o <<"s", " ">> ELSE <<>>)
    \o (IF c.ms.mag # <<>> /\ ~c.ms.neg THEN SetW(3, c.ms) \o <<"m", " ">> ELSE <<>>)
    \o (IF c.us.mag # <<>> /\ ~c.us.neg THEN SetW(3, c.us) \o <<"u", " ">> ELSE <<>>)
    \o (IF c.ns.mag # <<>> /\ ~c.ns.neg THEN SetW(3, c.ns) \o <<"n", " ">> ELSE <<>>)

\* the human branch of Duration::to_string()
HumanText(c) ==
    (IF c.h.mag # <<>> THEN SetW(3, c.h) \o <<"H", " ">> ELSE <<>>)
    \o (IF c.m.mag # <<>> THEN SetW(3, c.m) \o <<"M", " ">> ELSE <<>>)
    \o (IF c.s.mag # <<>> THEN SetW(3, c.s) \o <<"s", " ">> ELSE <<>>)
    \o (IF c.ms.mag # <<>> THEN SetW(3, c.ms) \o <<"m", " ">> ELSE <<>>)
    \o (IF c.us.mag # <<>> THEN SetW(3, c.us) \o <<"u", " ">> ELSE <<>>)
    \o (IF c.ns.mag # <<>> THEN SetW(3, c.ns) \o <<"n", " ">> ELSE <<>>)

\* a numeric branch that leaves out the components that are zero
NumericTextSkippingZeros(c) ==
    (IF c.h.mag # <<>> THEN Decimal(c.h) \o <<".">> ELSE <<>>)
    \o (IF c.m.mag # <<>> THEN Decimal(c.m) \o <<".">> ELSE <<>>)
    \o (IF c.s.mag # <<>> THEN Decimal(c.s) \o <<".">> ELSE <<>>)
    \o (IF c.ms.mag # <<>> THEN Decimal(c.ms) \o <<".">> ELSE <<>>)
    \o (IF c.us.mag # <<>> THEN Decimal(c.us) \o <<".">> ELSE <<>>)
    \o Decimal(c.ns)

\* the numeric branch of Duration::to_string()
NumericText(c) ==
    Decimal(c.h) \o <<".">> \o Decimal(c.m) \o <<".">> \o Decimal(c.s) \o <<".">>
    \o Decimal(c.ms) \o <<".">> \o Decimal(c.us) \o <<".">> \o Decimal(c.ns)

\* the last branch of Duration::to_string(): the placeholders of a format
\* that is not empty are replaced one kind after the other
CustomText(c, fmt) ==
    IF fmt = <<>> THEN <<>>
    ELSE LET o1 == Replace(fmt, <<"%", "H">>, Decimal(c.h))
             o2 == Replace(o1, <<"%", "M">>, Decimal(c.m))
             o3 == Replace(o2, <<"%", "s">>, Decimal(c.s))
             o4 == Replace(o3, <<"%", "m">>, Decimal(c.ms))
             o5 == Replace(o4, <<"%", "u">>, Decimal(c.us))
         IN  Replace(o5, <<"%", "n">>, Decimal(c.ns))

\* Duration::to_string() for the print modes human, numeric and custom, once
\* the components c are extracted
to_string(c, mode, fmt) ==
    IF mode = "human" THEN HumanText(c)
    ELSE IF mode = "numeric" THEN NumericText(c)
    ELSE CustomText(c, fmt)

(***************************************************************************)
(* The bounds of the model and the inputs of the operations.               *)
(***************************************************************************)
\* the clock reads whole seconds up to MaxSec
MaxSec == 1

\* a stopwatch records at most MaxRounds rounds between two resets
MaxRounds == 2

\* the nanosecond parts the clock reads
NsecReadings == {140000000, 210000000}

Readings == {Timespec(s, n) : s \in 0..MaxSec, n \in NsecReadings}

\* the clock reading at construction
FirstReading == Timespec(0, 0)

\* the print modes handed to set_print_mode
SetModes == {"human", "numeric"}

\* the format strings handed to set_format
Formats == {"", "%s.%m"}

\* the timeouts handed to set_timeout(time_t) and, as Durations, to
\* set_timeout(const Duration &), in nanoseconds
TimeoutNs == {0, 300000000, 1140000000}

\* the timeouts handed to set_timeout(double), in nanoseconds: 0.0 and the
\* 1.25 of examples/example_timer.cpp, which a double holds exactly
TimeoutSeconds == {0, 1250000000}

\* n nanoseconds as a timespec_t
TsOfNs(n) == Timespec(n \div ns_per_second, n % ns_per_second)

Objects == {"stopwatch", "timer", "pausable"}

Callers == {"timing", "display"}

(***************************************************************************)
(* The state.  obj says which object the behaviour drives: a Stopwatch, a  *)
(* Timer, or the Timer with pause() that examples/example_timer.cpp uses   *)
(* ("pausable"); the fields of the other objects keep their initial        *)
(* values, and print_mode and format are the fields of the object driven.  *)
(* caller says what the program around the object does with it: a "timing" *)
(* caller leaves the display settings alone and lets the clock run through *)
(* all its readings; a "display" caller also changes the print mode and    *)
(* the format, and works within the first second of the clock.             *)
(* clock is the reading timespec_t::now() returns.  op is the operation    *)
(* last run, ret the Duration it returned (NoDuration when it returns      *)
(* none) and flag the bool it returned (FALSE when it returns none).       *)
(*                                                                         *)
(* History variables, read by the properties only: calls holds the values  *)
(* round() returned since the last reset(); last_reset says whether the    *)
(* last reset() found rounds to clear; phase follows the pausable timer    *)
(* through run -> paused -> resumed ("other" once start() is called while  *)
(* running or pause() while paused); run_exact is the exact sum of the     *)
(* clock intervals the pausable timer ran for, up to the last pause();     *)
(* timeout_arg is the timeout the caller last passed to set_timeout, as an *)
(* exact time value (zero after construction); last_elapsed holds the      *)
(* values of the last two elapsed() calls of the Timer, oldest first,      *)
(* that no other operation of the Timer separates: only the clock moved    *)
(* between them; arg is the number the caller passed to the last          *)
(* operation, when it takes one (0 otherwise).                             *)
(***************************************************************************)
VARIABLES obj, caller, clock, op, ret, flag, print_mode, format,
          last_time_point, total_duration, partials,
          initial_time_point, timeout, accumulated,
          calls, last_reset, phase, run_exact, timeout_arg, last_elapsed, arg,
          helper_log, tv, tv_other, tv_trail, dur_mode, dur_format, text,
          comps, breakdown

vars == <<obj, caller, clock, op, ret, flag, print_mode, format,
          last_time_point, total_duration, partials,
          initial_time_point, timeout, accumulated,
          calls, last_reset, phase, run_exact, timeout_arg, last_elapsed,
          arg, helper_log, tv, tv_other, tv_trail, dur_mode, dur_format, text,
          comps, breakdown>>

swVars == <<last_time_point, total_duration, partials, calls, last_reset>>

tmVars == <<initial_time_point, timeout, timeout_arg>>

ptVars == <<accumulated, phase, run_exact>>

\* a time value on its own, the operand of its arithmetic, the operations
\* applied to it, the Duration settings, the components and the text of a
\* to_string() call, and what the ns_to_... helpers returned
valVars == <<tv, tv_other, tv_trail, dur_mode, dur_format, text, comps, breakdown>>

\* the readings the clock can move on to, for the caller
LaterReadings ==
    {t \in Readings \cup {clock} :
        /\ t = clock \/ TsLess(clock, t)
        /\ caller = "display" => t.tv_sec = 0}

\* what ret holds after an operation that returns no Duration
NoDuration == MkDuration(TsZero, "human", "")

\* Stopwatch(print_mode = human, format = std::string()) and
\* Timer(print_mode = human, format = std::string(), timeout = 0)
Init ==
    /\ obj \in Objects
    /\ caller \in Callers
    /\ clock = FirstReading
    /\ op = "init"
    /\ flag = FALSE
    /\ initial_time_point = clock
    /\ timeout = DZero
    /\ timeout_arg = TsZero
    /\ last_elapsed = <<>>
    /\ arg = 0
    /\ helper_log = <<>>
    /\ accumulated = TsZero
    /\ phase = "run"
    /\ run_exact = TsZero
    /\ print_mode = "human"
    /\ format = ""
    /\ ret = NoDuration
    /\ last_time_point = clock
    /\ total_duration = MkDuration(TsZero, "human", "")
    /\ partials = <<>>
    /\ calls = <<>>
    /\ last_reset = "none"
    /\ tv = TsZero
    /\ tv_other = TsZero
    /\ tv_trail = <<>>
    /\ dur_mode = "human"
    /\ dur_format = <<>>
    /\ text = <<>>
    /\ comps = <<>>
    /\ breakdown = <<>>

\* the clock moves on: timespec_t::now() reads a later time
Tick ==
    /\ \E t \in LaterReadings : TsLess(clock, t) /\ clock' = t
    /\ op' = "tick"
    /\ ret' = NoDuration
    /\ flag' = FALSE
    /\ arg' = 0
    /\ helper_log' = <<>>
    /\ UNCHANGED <<caller, valVars>>
    /\ UNCHANGED <<obj, print_mode, format, swVars, tmVars, ptVars, last_elapsed>>

(***************************************************************************)
(* Stopwatch                                                               *)
(***************************************************************************)
\* a set_print_mode() that leaves the recorded rounds as they are
SwSetPrintModeLazy ==
    /\ obj = "stopwatch"
    /\ caller = "display"
    /\ \E mode \in SetModes :
          /\ print_mode' = mode
          /\ total_duration' = DurationSetPrintMode(total_duration, mode)
    /\ op' = "set_print_mode"
    /\ ret' = NoDuration
    /\ arg' = 0
    /\ helper_log' = <<>>
    /\ UNCHANGED <<caller, valVars>>
    /\ UNCHANGED <<obj, clock, flag, format, last_time_point, partials, calls,
                   last_reset, tmVars, ptVars, last_elapsed>>

\* Stopwatch::set_print_mode
SwSetPrintMode ==
    /\ obj = "stopwatch"
    /\ caller = "display"
    /\ \E mode \in SetModes :
          /\ print_mode' = mode
          /\ total_duration' = DurationSetPrintMode(total_duration, mode)
          /\ partials' = [i \in 1..Len(partials) |->
                              DurationSetPrintMode(partials[i], mode)]
    /\ op' = "set_print_mode"
    /\ ret' = NoDuration
    /\ arg' = 0
    /\ helper_log' = <<>>
    /\ UNCHANGED <<caller, valVars>>
    /\ UNCHANGED <<obj, clock, flag, format, last_time_point, calls, last_reset,
                   tmVars, ptVars, last_elapsed>>

\* Stopwatch::set_format
SwSetFormat ==
    /\ obj = "stopwatch"
    /\ caller = "display"
    /\ \E fmt \in Formats :
          /\ format' = fmt
          /\ total_duration' = DurationSetFormat(total_duration, fmt)
          /\ partials' = [i \in 1..Len(partials) |->
                              DurationSetFormat(partials[i], fmt)]
    /\ op' = "set_format"
    /\ ret' = NoDuration
    /\ arg' = 0
    /\ helper_log' = <<>>
    /\ UNCHANGED <<caller, valVars>>
    /\ UNCHANGED <<obj, clock, flag, print_mode, last_time_point, calls,
                   last_reset, tmVars, ptVars, last_elapsed>>

\* a reset() that forgets to clear the history
ClearedPartialsKept == partials

\* _partials.clear() of Stopwatch::reset
ClearedPartials == <<>>

\* Stopwatch::reset, with the start() it ends with
SwReset ==
    /\ obj = "stopwatch"
    /\ total_duration' = DurationAssign(total_duration, TsZero)
    /\ partials' = ClearedPartials
    /\ last_time_point' = clock
    /\ op' = "reset"
    /\ ret' = NoDuration
    /\ calls' = <<>>
    /\ last_reset' = IF partials = <<>> THEN "empty" ELSE "nonempty"
    /\ arg' = 0
    /\ helper_log' = <<>>
    /\ UNCHANGED <<caller, valVars>>
    /\ UNCHANGED <<obj, clock, flag, print_mode, format, tmVars, ptVars, last_elapsed>>

\* a start() that also forgets the total
SwStartClearingTotal ==
    /\ obj = "stopwatch"
    /\ last_time_point' = clock
    /\ total_duration' = DurationAssign(total_duration, TsZero)
    /\ op' = "start"
    /\ ret' = NoDuration
    /\ arg' = 0
    /\ helper_log' = <<>>
    /\ UNCHANGED <<caller, valVars>>
    /\ UNCHANGED <<obj, clock, flag, print_mode, format, partials, calls,
                   last_reset, tmVars, ptVars, last_elapsed>>

\* Stopwatch::start
SwStart ==
    /\ obj = "stopwatch"
    /\ last_time_point' = clock
    /\ op' = "start"
    /\ ret' = NoDuration
    /\ arg' = 0
    /\ helper_log' = <<>>
    /\ UNCHANGED <<caller, valVars>>
    /\ UNCHANGED <<obj, clock, flag, print_mode, format,
                   total_duration, partials, calls, last_reset, tmVars, ptVars, last_elapsed>>

\* a round() that puts the new Duration at the front of the history
PushFront(ds, d) == <<d>> \o ds

\* _partials.push_back(duration) of Stopwatch::round
PushBack(ds, d) == Append(ds, d)

\* Stopwatch::round
SwRound ==
    /\ obj = "stopwatch"
    /\ Len(partials) < MaxRounds
    /\ \E now \in {clock} :
          \E elapsed \in {TsSub(now, last_time_point)} :
             \E duration \in {MkDuration(elapsed, print_mode, format)} :
                /\ last_time_point' = now
                /\ total_duration' = DurationPlusAssign(total_duration, elapsed)
                /\ partials' = PushBack(partials, duration)
                /\ ret' = duration
                /\ calls' = Append(calls, elapsed)
    /\ op' = "round"
    /\ arg' = 0
    /\ helper_log' = <<>>
    /\ UNCHANGED <<caller, valVars>>
    /\ UNCHANGED <<obj, clock, flag, print_mode, format, last_reset,
                   tmVars, ptVars, last_elapsed>>

\* an operator[] that turns down the last valid position
InRangeStrict(position, size) == position + 1 < size

\* position < _partials.size() of Stopwatch::operator[]
InRange(position, size) == position < size

\* Stopwatch::operator[](std::size_t position), const or not: op is
\* "out_of_range" when it throws std::out_of_range
SwIndex ==
    /\ obj = "stopwatch"
    /\ \E position \in 0..MaxRounds :
          /\ arg' = position
          /\ helper_log' = <<>>
          /\ IF InRange(position, Len(partials))
             THEN op' = "index" /\ ret' = partials[position + 1]
             ELSE op' = "out_of_range" /\ ret' = NoDuration
    /\ UNCHANGED <<caller, valVars>>
    /\ UNCHANGED <<obj, clock, flag, print_mode, format, swVars, tmVars, ptVars,
                   last_elapsed>>

\* the value of Stopwatch::last_round() for the history ds
LastRound(ds) ==
    IF ds = <<>>
    THEN MkDuration(TsSub(clock, last_time_point), print_mode, format)
    ELSE ds[Len(ds)]

\* Stopwatch::last_round
SwLastRound ==
    /\ obj = "stopwatch"
    /\ ret' = LastRound(partials)
    /\ op' = "last_round"
    /\ arg' = 0
    /\ helper_log' = <<>>
    /\ UNCHANGED <<caller, valVars>>
    /\ UNCHANGED <<obj, clock, flag, print_mode, format, swVars, tmVars, ptVars,
                   last_elapsed>>

\* Stopwatch::mean.  With no round recorded it divides 0.0 by 0.0 and
\* converts the NaN to integers, which is undefined: any value may come out,
\* in a Duration with the settings of the total
SwMean ==
    /\ obj = "stopwatch"
    /\ IF partials = <<>>
       THEN \E t \in Readings :
               ret' = MkDuration(t, total_duration.print_mode, total_duration.format)
       ELSE ret' = DurationDivScalar(total_duration, Len(partials))
    /\ op' = "mean"
    /\ arg' = 0
    /\ helper_log' = <<>>
    /\ UNCHANGED <<caller, valVars>>
    /\ UNCHANGED <<obj, clock, flag, print_mode, format, swVars, tmVars, ptVars,
                   last_elapsed>>

\* the assignments of Stopwatch::round once elapsed is computed, on the
\* stopwatch fields sw
RoundWith(sw, now, elapsed) ==
    [last_time_point |-> now,
     total_duration  |-> DurationPlusAssign(sw.total_duration, elapsed),
     partials        |-> PushBack(sw.partials,
                                  MkDuration(elapsed, print_mode, format)),
     calls           |-> Append(sw.calls, elapsed)]

\* one round() at the reading now, of the stopwatch fields sw (the body of
\* Stopwatch::round as the helpers run it)
RoundAt(sw, now) == RoundWith(sw, now, TsSub(now, sw.last_time_point))

\* the loop of ntimes: function() and then round(), once for every reading
\* of nows
RECURSIVE RunRounds(_, _)
RunRounds(sw, nows) ==
    IF nows = <<>> THEN sw
    ELSE RunRounds(RoundAt(sw, Head(nows)), Tail(nows))

\* what the helpers call in that loop, in order
RECURSIVE LoopLog(_)
LoopLog(n) == IF n = 0 THEN <<>> ELSE LoopLog(n - 1) \o <<"function", "round">>

\* the stopwatch fields after the reset() the helpers begin with
AfterReset ==
    [last_time_point |-> clock,
     total_duration  |-> DurationAssign(total_duration, TsZero),
     partials        |-> ClearedPartials,
     calls           |-> <<>>]

\* the readings of n round() calls in a row: the clock never goes back
RoundReadings(n) ==
    {nows \in [1..n -> LaterReadings] :
        \A i \in 1..(n - 1) : ~TsLess(nows[i + 1], nows[i])}

\* reset(), then n times function() and round(): the body of time (n = 1)
\* and of ntimes<n>.  The clock moves on while function() runs
Helper(n) ==
    /\ obj = "stopwatch"
    /\ caller = "timing"
    /\ \E nows \in RoundReadings(n) :
          \E sw \in {RunRounds(AfterReset, nows)} :
              /\ last_time_point' = sw.last_time_point
              /\ total_duration' = sw.total_duration
              /\ partials' = sw.partials
              /\ calls' = sw.calls
              /\ clock' = IF n = 0 THEN clock ELSE nows[n]
    /\ helper_log' = LoopLog(n)
    /\ last_reset' = IF partials = <<>> THEN "empty" ELSE "nonempty"
    /\ arg' = n
    /\ ret' = NoDuration
    /\ UNCHANGED <<caller, valVars>>
    /\ UNCHANGED <<obj, flag, print_mode, format, tmVars, ptVars, last_elapsed>>

\* time(stopwatch, function)
SwTime ==
    /\ Helper(1)
    /\ op' = "time"

\* ntimes<N>(stopwatch, function)
SwNtimes ==
    /\ \E N \in 0..MaxRounds : Helper(N)
    /\ op' = "ntimes"

(***************************************************************************)
(* Timer                                                                   *)
(***************************************************************************)
\* Timer::set_print_mode
TmSetPrintMode ==
    /\ obj = "timer"
    /\ caller = "display"
    /\ \E mode \in SetModes : print_mode' = mode
    /\ op' = "set_print_mode"
    /\ ret' = NoDuration
    /\ flag' = FALSE
    /\ last_elapsed' = <<>>
    /\ arg' = 0
    /\ helper_log' = <<>>
    /\ UNCHANGED <<caller, valVars>>
    /\ UNCHANGED <<obj, clock, format, swVars, tmVars, ptVars>>

\* Timer::set_format
TmSetFormat ==
    /\ obj = "timer"
    /\ caller = "display"
    /\ \E fmt \in Formats : format' = fmt
    /\ op' = "set_format"
    /\ ret' = NoDuration
    /\ flag' = FALSE
    /\ last_elapsed' = <<>>
    /\ arg' = 0
    /\ helper_log' = <<>>
    /\ UNCHANGED <<caller, valVars>>
    /\ UNCHANGED <<obj, clock, print_mode, swVars, tmVars, ptVars>>

\* Timer::set_timeout(double timeout)
TmSetTimeoutDouble ==
    /\ obj = "timer"
    /\ \E n \in TimeoutSeconds :
          /\ timeout' = DDiv1e9(DoubleOfInt(n))
          /\ timeout_arg' = TsOfNs(n)
    /\ op' = "set_timeout"
    /\ ret' = NoDuration
    /\ flag' = FALSE
    /\ last_elapsed' = <<>>
    /\ arg' = 0
    /\ helper_log' = <<>>
    /\ UNCHANGED <<caller, valVars>>
    /\ UNCHANGED <<obj, clock, print_mode, format, swVars, initial_time_point,
                   ptVars>>

\* Timer::set_timeout(time_t nanoseconds)
TmSetTimeoutNs ==
    /\ obj = "timer"
    /\ \E nanoseconds \in TimeoutNs :
          /\ timeout' = DDiv1e9(DoubleOfInt(nanoseconds))
          /\ timeout_arg' = TsOfNs(nanoseconds)
    /\ op' = "set_timeout"
    /\ ret' = NoDuration
    /\ flag' = FALSE
    /\ last_elapsed' = <<>>
    /\ arg' = 0
    /\ helper_log' = <<>>
    /\ UNCHANGED <<caller, valVars>>
    /\ UNCHANGED <<obj, clock, print_mode, format, swVars, initial_time_point,
                   ptVars>>

\* Timer::set_timeout(const Duration &duration)
TmSetTimeoutDuration ==
    /\ obj = "timer"
    /\ \E n \in TimeoutNs :
          /\ timeout' = Count(TsOfNs(n))
          /\ timeout_arg' = TsOfNs(n)
    /\ op' = "set_timeout"
    /\ ret' = NoDuration
    /\ flag' = FALSE
    /\ last_elapsed' = <<>>
    /\ arg' = 0
    /\ helper_log' = <<>>
    /\ UNCHANGED <<caller, valVars>>
    /\ UNCHANGED <<obj, clock, print_mode, format, swVars, initial_time_point,
                   ptVars>>

\* Timer::reset
TmReset ==
    /\ obj = "timer"
    /\ initial_time_point' = clock
    /\ op' = "reset"
    /\ ret' = NoDuration
    /\ flag' = FALSE
    /\ last_elapsed' = <<>>
    /\ arg' = 0
    /\ helper_log' = <<>>
    /\ UNCHANGED <<caller, valVars>>
    /\ UNCHANGED <<obj, clock, print_mode, format, swVars, timeout, timeout_arg,
                   ptVars>>

\* Timer::start
TmStart ==
    /\ obj = "timer"
    /\ initial_time_point' = clock
    /\ op' = "start"
    /\ ret' = NoDuration
    /\ flag' = FALSE
    /\ last_elapsed' = <<>>
    /\ arg' = 0
    /\ helper_log' = <<>>
    /\ UNCHANGED <<caller, valVars>>
    /\ UNCHANGED <<obj, clock, print_mode, format, swVars, timeout, timeout_arg,
                   ptVars>>

\* an elapsed() that subtracts the wrong way round
ElapsedReversed == TsSub(initial_time_point, clock)

\* the value of Timer::elapsed() in the current state
Elapsed == TsSub(clock, initial_time_point)

\* Timer::elapsed
TmElapsed ==
    /\ obj = "timer"
    /\ \E elapsed \in {Elapsed} :
          /\ ret' = MkDuration(elapsed, print_mode, format)
          /\ last_elapsed' = IF last_elapsed = <<>> THEN <<elapsed>>
                             ELSE <<last_elapsed[Len(last_elapsed)], elapsed>>
    /\ op' = "elapsed"
    /\ flag' = FALSE
    /\ arg' = 0
    /\ helper_log' = <<>>
    /\ UNCHANGED <<caller, valVars>>
    /\ UNCHANGED <<obj, clock, print_mode, format, swVars, tmVars, ptVars>>

\* a stop() that restarts the timer before it measures
TmStopResettingFirst ==
    /\ obj = "timer"
    /\ \E t \in LaterReadings :
          /\ clock' = t
          /\ initial_time_point' = clock
          /\ ret' = MkDuration(TsSub(t, clock), print_mode, format)
    /\ op' = "stop"
    /\ flag' = FALSE
    /\ last_elapsed' = <<>>
    /\ arg' = 0
    /\ helper_log' = <<>>
    /\ UNCHANGED <<caller, valVars>>
    /\ UNCHANGED <<obj, print_mode, format, swVars, timeout, timeout_arg, ptVars>>

\* Timer::stop: elapsed() reads the clock, then reset() reads it again, at
\* the same or at a later reading
TmStop ==
    /\ obj = "timer"
    /\ ret' = MkDuration(Elapsed, print_mode, format)
    /\ \E t \in LaterReadings :
          /\ clock' = t
          /\ initial_time_point' = t
    /\ op' = "stop"
    /\ flag' = FALSE
    /\ last_elapsed' = <<>>
    /\ arg' = 0
    /\ helper_log' = <<>>
    /\ UNCHANGED <<caller, valVars>>
    /\ UNCHANGED <<obj, print_mode, format, swVars, timeout, timeout_arg, ptVars>>

\* if (remaining_time < 0) remaining_time = 0 of Timer::remaining
NotBelowZero(remaining_time) ==
    IF DLess(remaining_time, DZero) THEN DZero ELSE remaining_time

\* the value of Timer::remaining() in the current state
Remaining == TimespecOfDouble(NotBelowZero(DSub(timeout, Count(Elapsed))))

\* Timer::remaining
TmRemaining ==
    /\ obj = "timer"
    /\ ret' = MkDuration(Remaining, print_mode, format)
    /\ op' = "remaining"
    /\ flag' = FALSE
    /\ last_elapsed' = <<>>
    /\ arg' = 0
    /\ helper_log' = <<>>
    /\ UNCHANGED <<caller, valVars>>
    /\ UNCHANGED <<obj, clock, print_mode, format, swVars, tmVars, ptVars>>

\* the value of Timer::has_timeout() in the current state
HasTimeout == DGreater(Count(Elapsed), timeout)

\* Timer::has_timeout
TmHasTimeout ==
    /\ obj = "timer"
    /\ flag' = HasTimeout
    /\ op' = "has_timeout"
    /\ ret' = NoDuration
    /\ last_elapsed' = <<>>
    /\ arg' = 0
    /\ helper_log' = <<>>
    /\ UNCHANGED <<caller, valVars>>
    /\ UNCHANGED <<obj, clock, print_mode, format, swVars, tmVars, ptVars>>

(***************************************************************************)
(* The Timer with pause().  examples/example_timer.cpp calls               *)
(* timer.pause(), which the Timer of timer.hpp does not have; this part    *)
(* follows the description of the pausable Timer: its state is a reference *)
(* point (initial_time_point) and the accumulated time; pause() folds the  *)
(* running interval into accumulated; start() marks the reference point    *)
(* and keeps accumulated; reset() also clears it; elapsed() is             *)
(* accumulated + (now - reference point).                                  *)
(***************************************************************************)
\* Timer::reset of the pausable Timer
PtReset ==
    /\ obj = "pausable"
    /\ initial_time_point' = clock
    /\ accumulated' = TsZero
    /\ op' = "reset"
    /\ ret' = NoDuration
    /\ phase' = "run"
    /\ run_exact' = TsZero
    /\ arg' = 0
    /\ helper_log' = <<>>
    /\ UNCHANGED <<caller, valVars>>
    /\ UNCHANGED <<obj, clock, flag, print_mode, format, swVars, timeout,
                   timeout_arg, last_elapsed>>

\* Timer::start of the pausable Timer
PtStart ==
    /\ obj = "pausable"
    /\ initial_time_point' = clock
    /\ op' = "start"
    /\ ret' = NoDuration
    /\ phase' = IF phase = "paused" THEN "resumed" ELSE "other"
    /\ arg' = 0
    /\ helper_log' = <<>>
    /\ UNCHANGED <<caller, valVars>>
    /\ UNCHANGED <<obj, clock, flag, print_mode, format, swVars, timeout,
                   timeout_arg, accumulated, run_exact, last_elapsed>>

\* Timer::pause of the pausable Timer
PtPause ==
    /\ obj = "pausable"
    /\ accumulated' = TsAdd(accumulated, TsSub(clock, initial_time_point))
    /\ initial_time_point' = clock
    /\ op' = "pause"
    /\ ret' = NoDuration
    /\ phase' = IF phase \in {"run", "resumed"} THEN "paused" ELSE "other"
    /\ run_exact' = IF phase \in {"run", "resumed"}
                    THEN ExactAdd(run_exact, ExactSub(clock, initial_time_point))
                    ELSE run_exact
    /\ arg' = 0
    /\ helper_log' = <<>>
    /\ UNCHANGED <<caller, valVars>>
    /\ UNCHANGED <<obj, clock, flag, print_mode, format, swVars, timeout,
                   timeout_arg, last_elapsed>>

\* Timer::elapsed of the pausable Timer
PtElapsed ==
    /\ obj = "pausable"
    /\ ret' = MkDuration(TsAdd(accumulated, TsSub(clock, initial_time_point)),
                         print_mode, format)
    /\ op' = "elapsed"
    /\ arg' = 0
    /\ helper_log' = <<>>
    /\ UNCHANGED <<caller, valVars>>
    /\ UNCHANGED <<obj, clock, flag, print_mode, format, swVars, tmVars, ptVars, last_elapsed>>

Next ==
    \/ Tick
    \/ SwSetPrintMode
    \/ SwSetFormat
    \/ SwReset
    \/ SwStart
    \/ SwRound
    \/ SwIndex
    \/ SwLastRound
    \/ SwMean
    \/ SwTime
    \/ SwNtimes
    \/ TmSetPrintMode
    \/ TmSetFormat
    \/ TmSetTimeoutDouble
    \/ TmSetTimeoutNs
    \/ TmSetTimeoutDuration
    \/ TmReset
    \/ TmStart
    \/ TmElapsed
    \/ TmStop
    \/ TmRemaining
    \/ TmHasTimeout
    \/ PtReset
    \/ PtStart
    \/ PtPause
    \/ PtElapsed

Spec == Init /\ [][Next]_vars


(***************************************************************************)
(* Time values and Durations on their own: a timespec_t tv that            *)
(* normalize(), operator+ and operator- act on, and a Duration built from  *)
(* it that to_string() renders.                                            *)
(***************************************************************************)
\* the seconds of the time values tried: before the epoch, one second, and
\* one hour, one minute and one second
SecValues == {-1, 0, 1, 3661}

\* the nanosecond fields tried: in range, negative, and a second or more in
\* either direction
NsecValues == {-2000000000, -1000000000, -1, 0, 210000000, 999999999,
               1000000000, 2000000001}

\* timespec_t(sec, nsec) stores what it is given
RawValues == {Timespec(s, n) : s \in SecValues, n \in NsecValues}

\* the right-hand operands of operator+ and operator-
OtherValues == {Timespec(0, 140000000), Timespec(1, 210000000)}

\* how many operations change one time value
MaxOps == 2

\* the print modes of the Durations rendered (the text of total, a double
\* printed by the stream, is not among them)
DurModes == {"human", "numeric", "custom"}

\* the formats of the Durations rendered in custom mode: none,
\* "%H%H:%n|%s.%m", the "%H:%M:%s:%m:%u:%n" of examples/example_stopwatch.cpp
\* and "%%n%Mx%u%"
DurFormats ==
    {<<>>,
     <<"%", "H", "%", "H", ":", "%", "n", "|", "%", "s", ".", "%", "m">>,
     <<"%", "H", ":", "%", "M", ":", "%", "s", ":", "%", "m", ":", "%", "u", ":",
       "%", "n">>,
     <<"%", "%", "n", "%", "M", "x", "%", "u", "%">>}

\* every variable of a Stopwatch or a Timer
objVars == <<obj, caller, clock, ret, flag, print_mode, format, swVars, tmVars,
             ptVars, last_elapsed, arg, helper_log>>

\* timespec_t(sec, nsec), a second timespec_t, and the settings of the
\* Duration that tv is given to; no Stopwatch and no Timer
InitValue ==
    /\ obj = "value"
    /\ caller = "timing"
    /\ clock = FirstReading
    /\ op = "init"
    /\ flag = FALSE
    /\ initial_time_point = clock
    /\ timeout = DZero
    /\ timeout_arg = TsZero
    /\ last_elapsed = <<>>
    /\ arg = 0
    /\ helper_log = <<>>
    /\ accumulated = TsZero
    /\ phase = "run"
    /\ run_exact = TsZero
    /\ print_mode = "human"
    /\ format = ""
    /\ ret = NoDuration
    /\ last_time_point = clock
    /\ total_duration = MkDuration(TsZero, "human", "")
    /\ partials = <<>>
    /\ calls = <<>>
    /\ last_reset = "none"
    /\ tv \in RawValues
    /\ tv_other \in OtherValues
    /\ tv_trail = <<>>
    /\ dur_mode \in DurModes
    /\ dur_format \in (IF dur_mode = "custom" THEN DurFormats ELSE {<<>>})
    /\ text = <<>>
    /\ comps = <<>>
    /\ breakdown = <<>>

\* tv.normalize()
TvNormalize ==
    /\ Len(tv_trail) < MaxOps
    /\ tv' = Normalize(tv)
    /\ tv_trail' = Append(tv_trail, [op |-> "normalize", from |-> tv])
    /\ op' = "normalize"
    /\ text' = <<>>
    /\ comps' = <<>>
    /\ breakdown' = <<>>
    /\ UNCHANGED <<tv_other, dur_mode, dur_format, objVars>>

\* tv = tv + tv_other
TvAdd ==
    /\ Len(tv_trail) < MaxOps
    /\ tv' = TsAdd(tv, tv_other)
    /\ tv_trail' = Append(tv_trail, [op |-> "add", from |-> tv])
    /\ op' = "add"
    /\ text' = <<>>
    /\ comps' = <<>>
    /\ breakdown' = <<>>
    /\ UNCHANGED <<tv_other, dur_mode, dur_format, objVars>>

\* tv = tv - tv_other
TvSub ==
    /\ Len(tv_trail) < MaxOps
    /\ tv' = TsSub(tv, tv_other)
    /\ tv_trail' = Append(tv_trail, [op |-> "sub", from |-> tv])
    /\ op' = "sub"
    /\ text' = <<>>
    /\ comps' = <<>>
    /\ breakdown' = <<>>
    /\ UNCHANGED <<tv_other, dur_mode, dur_format, objVars>>

\* Duration(tv, dur_mode, dur_format).to_string(); comps holds the
\* components it extracts
DurToString ==
    /\ \E d \in {MkDuration(tv, dur_mode, dur_format)} :
          \E c \in {Components(d.duration)} :
             /\ text' = to_string(c, d.print_mode, d.format)
             /\ comps' = c
    /\ breakdown' = <<>>
    /\ op' = "to_string"
    /\ UNCHANGED <<tv, tv_other, tv_trail, dur_mode, dur_format, objVars>>

\* detail::ns_to_hours(v, &r) ... detail::ns_to_microseconds(v, &r), each
\* called with v = tv.to_nanoseconds<time_t>()
TvBreakdown ==
    /\ \E v \in {ToNanoseconds(tv)} :
          breakdown' = [value        |-> v,
                        hours        |-> ns_to_hours(v),
                        minutes      |-> ns_to_minutes(v),
                        seconds      |-> ns_to_seconds(v),
                        milliseconds |-> ns_to_milliseconds(v),
                        microseconds |-> ns_to_microseconds(v)]
    /\ text' = <<>>
    /\ comps' = <<>>
    /\ op' = "breakdown"
    /\ UNCHANGED <<tv, tv_other, tv_trail, dur_mode, dur_format, objVars>>

NextValue ==
    \/ TvNormalize
    \/ TvAdd
    \/ TvSub
    \/ DurToString
    \/ TvBreakdown

SpecValue == InitValue /\ [][NextValue]_vars

(***************************************************************************)
(* Third specification: the arithmetic of a Duration. d is the Duration    *)
(* (tv, dur_mode, dur_format); x is a Duration of tv_other with other      *)
(* settings; ret holds what an operator returns.                           *)
(***************************************************************************)
\* the scalars a Duration is divided and multiplied by
Scalars == {2, 4}

\* the right-hand Duration x: in total mode, with a format of its own
Operand(ts) == MkDuration(ts, "total", <<"%", "s">>)

InitDuration ==
    /\ obj = "duration"
    /\ caller = "timing"
    /\ clock = FirstReading
    /\ op = "init"
    /\ flag = FALSE
    /\ initial_time_point = clock
    /\ timeout = DZero
    /\ timeout_arg = TsZero
    /\ last_elapsed = <<>>
    /\ arg = 0
    /\ helper_log = <<>>
    /\ accumulated = TsZero
    /\ phase = "run"
    /\ run_exact = TsZero
    /\ print_mode = "human"
    /\ format = ""
    /\ ret = MkDuration(TsZero, "human", <<>>)
    /\ last_time_point = clock
    /\ total_duration = MkDuration(TsZero, "human", "")
    /\ partials = <<>>
    /\ calls = <<>>
    /\ last_reset = "none"
    /\ tv \in OtherValues
    /\ tv_other \in OtherValues
    /\ tv_trail = <<>>
    /\ dur_mode \in DurModes
    /\ dur_format \in (IF dur_mode = "custom" THEN DurFormats ELSE {<<>>})
    /\ text = <<>>
    /\ comps = <<>>
    /\ breakdown = <<>>

\* what no operator of a Duration touches
durFrame == <<obj, caller, clock, flag, print_mode, format, swVars, tmVars,
              ptVars, last_elapsed, arg, helper_log, tv_other, text, comps,
              breakdown>>

\* d + x
DurPlus ==
    /\ ret' = DurationPlus(MkDuration(tv, dur_mode, dur_format), Operand(tv_other))
    /\ op' = "+"
    /\ UNCHANGED <<tv, dur_mode, dur_format, tv_trail, durFrame>>

\* d - x
DurMinus ==
    /\ ret' = DurationMinus(MkDuration(tv, dur_mode, dur_format), Operand(tv_other))
    /\ op' = "-"
    /\ UNCHANGED <<tv, dur_mode, dur_format, tv_trail, durFrame>>

\* d / k
DurDiv ==
    /\ \E k \in Scalars :
          ret' = DurationDivScalar(MkDuration(tv, dur_mode, dur_format), k)
    /\ op' = "/"
    /\ UNCHANGED <<tv, dur_mode, dur_format, tv_trail, durFrame>>

\* d * k
DurTimes ==
    /\ \E k \in Scalars :
          ret' = DurationTimesScalar(MkDuration(tv, dur_mode, dur_format), k)
    /\ op' = "*"
    /\ UNCHANGED <<tv, dur_mode, dur_format, tv_trail, durFrame>>

\* an operator that returns *this leaves r in d, and r is what it returns
Becomes(r, name) ==
    /\ tv' = r.duration
    /\ dur_mode' = r.print_mode
    /\ dur_format' = r.format
    /\ ret' = r
    /\ tv_trail' = Append(tv_trail, [op |-> name, from |-> tv])
    /\ op' = name
    /\ UNCHANGED durFrame

\* d += t, with a timespec_t t
DurPlusAssign ==
    /\ Len(tv_trail) < MaxOps
    /\ Becomes(DurationPlusAssign(MkDuration(tv, dur_mode, dur_format), tv_other), "+=")

\* d -= x
DurMinusAssign ==
    /\ Len(tv_trail) < MaxOps
    /\ Becomes(DurationMinusAssign(MkDuration(tv, dur_mode, dur_format),
                                   Operand(tv_other)), "-=")

\* d /= k
DurDivAssign ==
    /\ Len(tv_trail) < MaxOps
    /\ \E k \in Scalars :
          Becomes(DurationDivAssign(MkDuration(tv, dur_mode, dur_format), k), "/=")

\* d = t, with a timespec_t t
DurAssign ==
    /\ Len(tv_trail) < MaxOps
    /\ Becomes(DurationAssign(MkDuration(tv, dur_mode, dur_format), tv_other), "=")

NextDuration ==
    \/ DurPlus
    \/ DurMinus
    \/ DurDiv
    \/ DurTimes
    \/ DurPlusAssign
    \/ DurMinusAssign
    \/ DurDivAssign
    \/ DurAssign

SpecDuration == InitDuration /\ [][NextDuration]_vars


(***************************************************************************)
(* Properties of the Stopwatch.                                            *)
(***************************************************************************)
\* C1: after any sequence of reset(), start() and round() calls, total()
\* equals the sum of the Durations held in the round history (zero when
\* the history is empty).
C1_TotalIsSumOfRounds ==
    obj = "stopwatch" => total_duration.duration = ExactSum(partials)

\* C2: after reset() and a sequence of start() and round() calls with N
\* round() calls, the history holds exactly N entries, in the order the
\* round() calls were made: entry i is the value the i-th round() returned.
C2_HistoryFollowsCalls ==
    obj = "stopwatch" /\ last_reset # "none" =>
        /\ Len(partials) = Len(calls)
        /\ \A i \in 1..Len(calls) : partials[i].duration = calls[i]

\* C2, its case: a reset() followed by at least two round() calls that
\* returned different values
C2_TwoRoundsAfterReset ==
    /\ obj = "stopwatch"
    /\ last_reset # "none"
    /\ op = "round"
    /\ Len(calls) >= 2
    /\ calls[1] # calls[2]

\* C3: round() called when the clock reads now and the reference point is
\* ref returns the Duration now - ref, appends exactly that Duration to the
\* history, increases total by exactly that amount and leaves the reference
\* point at now.
C3_RoundRecordsElapsed ==
    [][obj = "stopwatch" /\ op' = "round" =>
          /\ ret'.duration = ExactSub(clock, last_time_point)
          /\ partials' = Append(partials, ret')
          /\ total_duration'.duration =
                 ExactAdd(total_duration.duration, ExactSub(clock, last_time_point))
          /\ last_time_point' = clock]_vars

\* C4: reset() leaves the history empty, total zero and the reference
\* point at the clock reading of the call.
C4_ResetClears ==
    obj = "stopwatch" /\ op = "reset" =>
        /\ partials = <<>>
        /\ total_duration.duration = TsZero
        /\ last_time_point = clock

\* C4, its case: a reset() that found rounds in the history
C4_ResetAfterRounds ==
    obj = "stopwatch" /\ op = "reset" /\ last_reset = "nonempty"

\* C5: start() changes only the reference point, which it sets to the
\* clock reading: history, total, print mode and format stay as they were.
C5_StartChangesReferenceOnly ==
    [][obj = "stopwatch" /\ op' = "start" =>
          /\ last_time_point' = clock
          /\ partials' = partials
          /\ total_duration' = total_duration
          /\ print_mode' = print_mode
          /\ format' = format]_vars

\* C5, its case: a start() with rounds in the history, a total that is not
\* zero and a print mode and a format that are not the defaults
C5_StartWithHistory ==
    /\ obj = "stopwatch"
    /\ op = "start"
    /\ partials # <<>>
    /\ total_duration.duration # TsZero
    /\ print_mode # "human"
    /\ format # ""

(***************************************************************************)
(* Properties of the Timer.                                                *)
(***************************************************************************)
\* C6: has_timeout() is false when the timeout is zero (none was set), for
\* every elapsed time.
C6_NoTimeoutWhenZero ==
    obj = "timer" /\ op = "has_timeout" /\ timeout_arg = TsZero => flag = FALSE

\* C7: with a timeout T that is not zero, has_timeout() is true if and only
\* if the elapsed time strictly exceeds T; it is false when they are equal.
C7_TimeoutIffElapsedExceeds ==
    obj = "timer" /\ op = "has_timeout" /\ timeout_arg # TsZero =>
        (flag <=> TsLess(timeout_arg, Elapsed))

C10_RemainingIsFlooredDifference ==
    obj = "timer" /\ op = "remaining" =>
        ret.duration = IF TsLess(Elapsed, timeout_arg)
                       THEN ExactSub(timeout_arg, Elapsed)
                       ELSE TsZero

\* C11: stop() returns the elapsed time measured at the call, before the
\* reset: afterwards the reference point is the clock reading of the call,
\* and the timeout, the print mode and the format are what they were.
C11_StopReturnsThenResets ==
    [][obj = "timer" /\ op' = "stop" =>
          /\ ret' = MkDuration(Elapsed, print_mode, format)
          /\ initial_time_point' = clock'
          /\ timeout' = timeout
          /\ timeout_arg' = timeout_arg
          /\ print_mode' = print_mode
          /\ format' = format]_vars

\* C11, its case: a stop() of a timer that has run for some time, with a
\* timeout set and a print mode and a format that are not the defaults
C11_StopAfterRunning ==
    /\ obj = "timer"
    /\ op = "stop"
    /\ ret.duration # TsZero
    /\ initial_time_point = clock
    /\ timeout # DZero
    /\ print_mode # "human"
    /\ format # ""

\* C12: with no start(), reset(), stop() or pause() in between, an
\* elapsed() never returns less than the elapsed() before it.
C12_ElapsedNeverDecreases ==
    obj = "timer" /\ Len(last_elapsed) = 2 =>
        ~TsLess(last_elapsed[2], last_elapsed[1])

\* C12, its case: an elapsed() that returned more than the one before it
C12_TwoElapsedCalls ==
    /\ obj = "timer"
    /\ op = "elapsed"
    /\ Len(last_elapsed) = 2
    /\ TsLess(TsZero, last_elapsed[1])
    /\ TsLess(last_elapsed[1], last_elapsed[2])
    /\ ret.duration = last_elapsed[2]

\* n times the time value ts, exactly
RECURSIVE ExactTimes(_, _)
ExactTimes(ts, n) == IF n = 0 THEN TsZero ELSE ExactAdd(ts, ExactTimes(ts, n - 1))

\* C13: operator[](i) on a stopwatch holding n rounds raises the
\* out-of-range error for every i >= n and changes nothing; for i < n it
\* returns the i-th recorded round.
C13_IndexInRangeOrError ==
    [][obj = "stopwatch" /\ op' \in {"index", "out_of_range"} =>
          /\ arg' >= Len(partials) => op' = "out_of_range"
          /\ arg' < Len(partials) => op' = "index" /\ ret' = partials[arg' + 1]
          /\ partials' = partials
          /\ total_duration' = total_duration
          /\ last_time_point' = last_time_point]_vars

\* C13, its case: the error raised for the first position past the end of
\* a history that is not empty
C13_ErrorPastTheEnd ==
    /\ obj = "stopwatch"
    /\ op = "out_of_range"
    /\ partials # <<>>
    /\ arg = Len(partials)

\* C14: last_round() returns the last entry of the history when there is
\* one, and otherwise the Duration now - reference point; it records
\* nothing.
C14_LastRoundOrLive ==
    [][obj = "stopwatch" /\ op' = "last_round" =>
          /\ ret'.duration = IF partials = <<>>
                             THEN ExactSub(clock, last_time_point)
                             ELSE partials[Len(partials)].duration
          /\ partials' = partials
          /\ total_duration' = total_duration
          /\ last_time_point' = last_time_point]_vars

\* C15: mean() with N >= 1 recorded rounds returns total() divided by N:
\* N times the mean is within N nanoseconds of the total.
C15_MeanIsTotalOverN ==
    obj = "stopwatch" /\ op = "mean" /\ partials # <<>> =>
        LET N      == Len(partials)
            slack  == Timespec(0, N)
            scaled == ExactTimes(ret.duration, N)
        IN  /\ TsLess(scaled, ExactAdd(total_duration.duration, slack))
            /\ TsLess(total_duration.duration, ExactAdd(scaled, slack))

\* C16: right after set_print_mode(m) or set_format(f), the total and
\* every recorded round carry mode m and format f.
C16_DisplaySettingsReachAll ==
    obj = "stopwatch" /\ op \in {"set_print_mode", "set_format"} =>
        /\ total_duration.print_mode = print_mode
        /\ total_duration.format = format
        /\ \A i \in 1..Len(partials) :
              /\ partials[i].print_mode = print_mode
              /\ partials[i].format = format

\* C16, its case: set_print_mode and set_format on a stopwatch with two
\* rounds that were recorded with the default settings
C16_SettingsChangedAfterRounds ==
    /\ obj = "stopwatch"
    /\ op \in {"set_print_mode", "set_format"}
    /\ Len(partials) = 2
    /\ print_mode = "numeric"
    /\ format = "%s.%m"


\* C17: after time() the callable was invoked once and the stopwatch holds
\* one round; after ntimes<N>() the callable was invoked N times, each
\* invocation followed by one round(), and the stopwatch holds N rounds whose
\* sum is total(), whatever it held before
C17_HelpersRunAndRecord ==
    /\ op = "time" =>
          /\ helper_log = <<"function", "round">>
          /\ Len(partials) = 1
    /\ op = "ntimes" =>
          /\ Len(helper_log) = 2 * arg
          /\ \A i \in 1..arg :
                /\ helper_log[2 * i - 1] = "function"
                /\ helper_log[2 * i] = "round"
          /\ Len(partials) = arg
          /\ ExactSum(partials) = total_duration.duration


(***************************************************************************)
(* Properties of time values.                                              *)
(***************************************************************************)
\* C18: normalize() leaves the nanoseconds from 0 up to, not including,
\* 1,000,000,000, whatever the two fields were, and a second normalize()
\* changes nothing
C18_NormalizeRestoresRange ==
    /\ op = "normalize" => tv.tv_nsec >= 0 /\ tv.tv_nsec < ns_per_second
    /\ /\ Len(tv_trail) = 2
       /\ tv_trail[1].op = "normalize"
       /\ tv_trail[2].op = "normalize"
       => tv = tv_trail[2].from

\* C18 witness: normalize() was applied twice to a time value that came with
\* negative nanoseconds
C18_NegativeNormalizedTwice ==
    /\ Len(tv_trail) = 2
    /\ tv_trail[1].op = "normalize"
    /\ tv_trail[2].op = "normalize"
    /\ tv_trail[1].from.tv_nsec < 0
    /\ tv_trail[1].from.tv_nsec > -ns_per_second

\* C19: (a + b) - b is a, to the nanosecond, for normalized a and b
C19_AddThenSubIsIdentity ==
    /\ Len(tv_trail) = 2
    /\ tv_trail[1].op = "add"
    /\ tv_trail[2].op = "sub"
    /\ Normalize(tv_trail[1].from) = tv_trail[1].from
    => tv = tv_trail[1].from


(***************************************************************************)
(* Properties of Duration::to_string().                                    *)
(***************************************************************************)
\* the positions of the dots of a text
Dots(str) == {i \in 1..Len(str) : str[i] = "."}

\* C20: in numeric mode to_string() prints six components separated by five
\* dots, the zero ones included, with no padding: the text is made of
\* decimal numerals only, it has exactly five dots, none of them first, last
\* or next to another one; 3661 s 0 ns gives "1.1.1.0.0.0"
C20_NumericPrintsSixComponents ==
    op = "to_string" /\ dur_mode = "numeric" =>
        /\ \A i \in 1..Len(text) :
              text[i] = "." \/ text[i] = "-" \/ \E j \in 1..10 : text[i] = DigitChars[j]
        /\ Cardinality(Dots(text)) = 5
        /\ 1 \notin Dots(text)
        /\ Len(text) \notin Dots(text)
        /\ \A i \in Dots(text) : i + 1 \notin Dots(text)
        /\ tv = Timespec(3661, 0) =>
              text = <<"1", ".", "1", ".", "1", ".", "0", ".", "0", ".", "0">>

\* C20 witness: 3661 s 0 ns was rendered in numeric mode as "1.1.1.0.0.0"
C20_NumericOf3661Seconds ==
    /\ op = "to_string"
    /\ dur_mode = "numeric"
    /\ tv = Timespec(3661, 0)
    /\ text = <<"1", ".", "1", ".", "1", ".", "0", ".", "0", ".", "0">>

\* C21: in human mode a Duration of exactly 3661 s 0 ns is rendered as
\* "  1H   1M   1s ": each of the three values filled to width 3, its unit
\* letter and a space; the zero milliseconds, microseconds and nanoseconds
\* are left out
C21_HumanOf3661SecondsPadded ==
    op = "to_string" /\ dur_mode = "human" /\ tv = Timespec(3661, 0) =>
        text = <<" ", " ", "1", "H", " ", " ", " ", "1", "M", " ",
                 " ", " ", "1", "s", " ">>

\* C21 as stated: the same Duration is rendered as "1H 1M 1s"
C21_HumanOf3661SecondsBare ==
    op = "to_string" /\ dur_mode = "human" /\ tv = Timespec(3661, 0) =>
        text = <<"1", "H", " ", "1", "M", " ", "1", "s">>

\* C21 witness: 3661 s 0 ns was rendered in human mode
C21_HumanRendered3661Seconds ==
    /\ op = "to_string"
    /\ dur_mode = "human"
    /\ tv = Timespec(3661, 0)
    /\ Len(text) > 0

\* the unit letters of the human form, in the order they are printed
UnitLetters == <<"H", "M", "s", "m", "u", "n">>

\* the six components in the order hours .. nanoseconds
ComponentList(c) == <<c.h, c.m, c.s, c.ms, c.us, c.ns>>

\* the integer a time_t of the model stands for
TimeTValue(x) == IF x.neg THEN 0 - BToInt(x.mag) ELSE BToInt(x.mag)

\* the positions of the unit letters of a text
LetterAt(str) == {i \in 1..Len(str) : \E k \in 1..6 : str[i] = UnitLetters[k]}

\* the components that are not zero, as indexes into ComponentList
NonZero(c) == {k \in 1..6 : TimeTValue(ComponentList(c)[k]) # 0}

\* the r-th smallest member of a set of integers
KthOf(S, r) == CHOOSE k \in S : Cardinality({j \in S : j <= k}) = r

IsDigit(ch) == \E d \in 1..10 : DigitChars[d] = ch

\* the number a sequence of decimal digits reads as
RECURSIVE NumeralValue(_)
NumeralValue(digits) ==
    IF digits = <<>> THEN 0
    ELSE 10 * NumeralValue(SubSeq(digits, 1, Len(digits) - 1))
         + (CHOOSE d \in 0..9 : DigitChars[d + 1] = digits[Len(digits)])

\* field is the numeral of v (v # 0) with spaces in front up to width w
\* and none beyond
IsPadded(field, w, v) ==
    /\ Len(field) >= w
    /\ \E j \in 1..Len(field) :
          /\ \A i \in 1..(j - 1) : field[i] = " "
          /\ j = 1 \/ Len(field) = w
          /\ LET body == SubSeq(field, j, Len(field))
                 digits == IF body[1] = "-" THEN Tail(body) ELSE body
             IN  /\ digits # <<>>
                 /\ \A i \in 1..Len(digits) : IsDigit(digits[i])
                 /\ digits[1] # "0"
                 /\ (body[1] = "-") = (v < 0)
                 /\ NumeralValue(digits) = (IF v < 0 THEN 0 - v ELSE v)

\* C22: in human mode to_string() prints exactly the components that are not
\* zero, in the order hours, minutes, seconds, milliseconds, microseconds,
\* nanoseconds, each as its value filled to width 3, its unit letter and a
\* space; a zero component leaves nothing in the text
C22_HumanPrintsNonZeroComponents ==
    op = "to_string" /\ dur_mode = "human" =>
        /\ Cardinality(LetterAt(text)) = Cardinality(NonZero(comps))
        /\ (text = <<>>) = (NonZero(comps) = {})
        /\ text # <<>> => Len(text) - 1 \in LetterAt(text) /\ text[Len(text)] = " "
        /\ \A i \in LetterAt(text) :
              LET before == {j \in LetterAt(text) : j < i}
                  k == KthOf(NonZero(comps), Cardinality(before) + 1)
                  first == IF before = {} THEN 1
                           ELSE 2 + CHOOSE j \in before : \A l \in before : l <= j
              IN  /\ text[i] = UnitLetters[k]
                  /\ i < Len(text) /\ text[i + 1] = " "
                  /\ IsPadded(SubSeq(text, first, i - 1), 3,
                              TimeTValue(ComponentList(comps)[k]))

\* C22 witness: 0 s 210000000 ns, a duration under one second, was rendered
\* in human mode with its milliseconds only
C22_SubSecondPrintsMilliseconds ==
    /\ op = "to_string"
    /\ dur_mode = "human"
    /\ tv = Timespec(0, 210000000)
    /\ text = <<"2", "1", "0", "m", " ">>

\* the decimal numeral of an integer
RECURSIVE NumeralOfNat(_)
NumeralOfNat(n) ==
    IF n < 10 THEN <<DigitChars[n + 1]>>
    ELSE NumeralOfNat(n \div 10) \o <<DigitChars[(n % 10) + 1]>>

NumeralOf(n) == IF n < 0 THEN <<"-">> \o NumeralOfNat(0 - n) ELSE NumeralOfNat(n)

\* str[i], str[i + 1] is one of the placeholders %H %M %s %m %u %n
PlaceholderAt(str, i) ==
    /\ i < Len(str)
    /\ str[i] = "%"
    /\ \E k \in 1..6 : str[i + 1] = UnitLetters[k]

\* fmt from position i on, read once from left to right: a placeholder
\* gives the numeral of its component, any other character gives itself
RECURSIVE Substituted(_, _, _)
Substituted(fmt, i, c) ==
    IF i > Len(fmt) THEN <<>>
    ELSE IF PlaceholderAt(fmt, i)
         THEN NumeralOf(TimeTValue(ComponentList(c)[
                  CHOOSE k \in 1..6 : fmt[i + 1] = UnitLetters[k]]))
              \o Substituted(fmt, i + 2, c)
         ELSE <<fmt[i]>> \o Substituted(fmt, i + 1, c)

\* C23: in custom mode to_string() returns the format with every occurrence
\* of %H, %M, %s, %m, %u, %n replaced by the decimal value of the hours,
\* minutes, seconds, milliseconds, microseconds, nanoseconds: the text is the
\* format read once from left to right (the other characters stay in place,
\* an inserted value is not substituted again), and no placeholder is left
C23_CustomReplacesEveryPlaceholder ==
    op = "to_string" /\ dur_mode = "custom" =>
        /\ text = Substituted(dur_format, 1, comps)
        /\ \A i \in 1..Len(text) : ~PlaceholderAt(text, i)

\* C23 witness: 3661 s 0 ns was rendered in custom mode with the format
\* "%H%H:%n|%s.%m", which holds %H twice, as "11:0|1.0"
C23_CustomOf3661Seconds ==
    /\ op = "to_string"
    /\ dur_mode = "custom"
    /\ dur_format = <<"%", "H", "%", "H", ":", "%", "n", "|", "%", "s", ".", "%", "m">>
    /\ tv = Timespec(3661, 0)
    /\ text = <<"1", "1", ":", "0", "|", "1", ".", "0">>

(***************************************************************************)
(* Properties of the arithmetic of a Duration.                             *)
(***************************************************************************)
\* C24: d + x, d - x, d / k and d * k return a Duration with the print mode
\* and the format of d and leave d as it was; d += t, d -= x, d /= k and
\* d = t change the value of d only, its print mode and format stay
C24_ArithmeticKeepsSettings ==
    [][/\ op' \in {"+", "-", "/", "*"} =>
             /\ ret'.print_mode = dur_mode
             /\ ret'.format = dur_format
             /\ tv' = tv /\ dur_mode' = dur_mode /\ dur_format' = dur_format
       /\ op' \in {"+=", "-=", "/=", "="} =>
             /\ dur_mode' = dur_mode
             /\ dur_format' = dur_format]_vars

\* C24 witness: a Duration in custom mode was multiplied by a scalar after a
\* compound operator had changed its value: the product differs from d, which
\* differs from what it was
C24_ScaledAfterCompound ==
    /\ op = "*"
    /\ dur_mode = "custom"
    /\ dur_format # <<>>
    /\ tv_trail # <<>>
    /\ tv_trail[Len(tv_trail)].from # tv
    /\ ret.duration # tv

(***************************************************************************)
(* Properties of the breakdown of a nanosecond total.                      *)
(***************************************************************************)
\* d.result * unit + d.remainder is v, and 0 <= d.remainder < unit
RoundTrips(v, d, unit) ==
    /\ TimeTAdd(TimeTMul(d.result, unit), d.remainder) = v
    /\ ~d.remainder.neg
    /\ BCmp(d.remainder.mag, unit.mag) < 0

\* C25: for a nanosecond total v that is not negative, each of ns_to_hours,
\* ns_to_minutes, ns_to_seconds, ns_to_milliseconds, ns_to_microseconds
\* returns a quotient q and a remainder r with q * unit + r = v and
\* 0 <= r < unit; with the unit of a second, the whole seconds times
\* 1,000,000,000 plus the nanosecond rest is the total
C25_BreakdownRoundTrips ==
    op = "breakdown" /\ ~breakdown.value.neg =>
        /\ RoundTrips(breakdown.value, breakdown.hours, ns_per_hour)
        /\ RoundTrips(breakdown.value, breakdown.minutes, ns_per_minute)
        /\ RoundTrips(breakdown.value, breakdown.seconds, TimeT(ns_per_second))
        /\ RoundTrips(breakdown.value, breakdown.milliseconds, TimeT(ns_per_millisecond))
        /\ RoundTrips(breakdown.value, breakdown.microseconds, TimeT(ns_per_microsecond))

\* C25 witness: the total of 3661 s 999999999 ns was broken down: one hour
\* and a rest, 3661 seconds and a rest of 999999999 ns
C25_BrokenDown3661Seconds ==
    /\ op = "breakdown"
    /\ tv = Timespec(3661, 999999999)
    /\ breakdown.hours.result = TimeT(1)
    /\ breakdown.hours.remainder # TimeT(0)
    /\ breakdown.seconds.result = TimeT(3661)
    /\ breakdown.seconds.remainder = TimeT(999999999)

(***************************************************************************)
(* Further properties of the Stopwatch.                                    *)
(***************************************************************************)
\* C26: the rounds of a stopwatch are contiguous: reset() and start() put
\* the reference point at the reading t0 of the call; a round() at the
\* reading t ends exactly at t what began at the reference point, and begins
\* the next round there; so the N rounds of a reset() at t0 followed by
\* round() calls only (what time and ntimes<N> run), the last one at tN, sum
\* to tN - t0: no clock time is lost or counted twice
C26_RoundsAreContiguous ==
    [][obj = "stopwatch" =>
          /\ op' \in {"reset", "start"} => last_time_point' = clock'
          /\ op' = "round" =>
                /\ ExactAdd(last_time_point, ret'.duration) = clock'
                /\ last_time_point' = clock'
          /\ op' \in {"time", "ntimes"} =>
                /\ Len(partials') = arg'
                /\ ExactSum(partials') = ExactSub(clock', clock)
                /\ last_time_point' = clock']_vars

(***************************************************************************)
(* Further properties of timespec_t.                                       *)
(***************************************************************************)
\* C27: normalize() keeps the value a timespec_t stands for: seconds *
\* 1,000,000,000 + nanoseconds is the same before and after, also for
\* negative nanoseconds and for nanoseconds of a second or more in either
\* direction; only the split between the two fields changes
C27_NormalizeKeepsValue ==
    op = "normalize" =>
        ToNanoseconds(tv) = ToNanoseconds(tv_trail[Len(tv_trail)].from)

\* C27 witness: normalize() was applied to 3661 s 2000000001 ns and moved two
\* seconds from the nanoseconds into the seconds
C27_NormalizedTwoSecondsOver ==
    /\ op = "normalize"
    /\ tv_trail[Len(tv_trail)].from = Timespec(3661, 2000000001)
    /\ tv = Timespec(3663, 1)

\* h hours, m minutes, s seconds, ms milliseconds, us microseconds and ns
\* nanoseconds, in nanoseconds
ComponentTotal(c) ==
    TimeTAdd(TimeTMul(c.h, ns_per_hour),
    TimeTAdd(TimeTMul(c.m, ns_per_minute),
    TimeTAdd(TimeTMul(c.s, TimeT(ns_per_second)),
    TimeTAdd(TimeTMul(c.ms, TimeT(ns_per_millisecond)),
    TimeTAdd(TimeTMul(c.us, TimeT(ns_per_microsecond)), c.ns)))))

\* C28: for a Duration of n >= 0 nanoseconds the six components that
\* to_string() extracts add up to n, h * 3,600,000,000,000 +
\* m * 60,000,000,000 + s * 1,000,000,000 + ms * 1,000,000 + us * 1,000 + ns,
\* with 0 <= m < 60, 0 <= s < 60, 0 <= ms < 1000, 0 <= us < 1000,
\* 0 <= ns < 1000 and h >= 0
C28_ComponentsAddUp ==
    op = "to_string" /\ ~ToNanoseconds(tv).neg =>
        /\ ComponentTotal(comps) = ToNanoseconds(tv)
        /\ TimeTValue(comps.h) >= 0
        /\ TimeTValue(comps.m) \in 0..59
        /\ TimeTValue(comps.s) \in 0..59
        /\ TimeTValue(comps.ms) \in 0..999
        /\ TimeTValue(comps.us) \in 0..999
        /\ TimeTValue(comps.ns) \in 0..999

\* C28 witness: to_string() took 3661 s 999999999 ns apart into 1 hour,
\* 1 minute, 1 second, 999 milliseconds, 999 microseconds, 999 nanoseconds
C28_ComponentsOf3661Seconds ==
    /\ op = "to_string"
    /\ tv = Timespec(3661, 999999999)
    /\ comps = [h |-> TimeT(1), m |-> TimeT(1), s |-> TimeT(1),
                ms |-> TimeT(999), us |-> TimeT(999), ns |-> TimeT(999)]

\* C29: whatever set_print_mode, set_format, reset, start and round calls
\* were made, the total, every recorded round and the Duration mean()
\* returns carry the print mode and the format the stopwatch holds now:
\* reset() keeps them, and a round recorded after a change has the new ones
C29_SettingsCarriedThroughout ==
    obj = "stopwatch" =>
        /\ total_duration.print_mode = print_mode
        /\ total_duration.format = format
        /\ \A i \in 1..Len(partials) :
              /\ partials[i].print_mode = print_mode
              /\ partials[i].format = format
        /\ op = "mean" => ret.print_mode = print_mode /\ ret.format = format

\* C29 witness: a stopwatch set to numeric mode and the format "%s.%m" was
\* reset with rounds in its history, and recorded a round afterwards
C29_RoundAfterSettingsAndReset ==
    /\ obj = "stopwatch"
    /\ op = "round"
    /\ last_reset = "nonempty"
    /\ print_mode = "numeric"
    /\ format = "%s.%m"
    /\ Len(partials) = 1

\* C30: a Duration whose value is exactly zero is rendered as the empty
\* string in human mode (its six components are zero and all skipped) and
\* as "0.0.0.0.0.0" in numeric mode
C30_ZeroIsEmptyOrSixZeros ==
    op = "to_string" /\ ToNanoseconds(tv) = TimeT(0) =>
        /\ dur_mode = "human" => text = <<>>
        /\ dur_mode = "numeric" =>
              text = <<"0", ".", "0", ".", "0", ".", "0", ".", "0", ".", "0">>

\* C30 witness: the Duration of 0 s 0 ns was rendered in human mode, from
\* six components that are all zero
C30_ZeroRenderedInHumanMode ==
    /\ op = "to_string"
    /\ dur_mode = "human"
    /\ tv = TsZero
    /\ NonZero(comps) = {}
    /\ text = <<>>

=============================================================================
